---- MODULE Spec2Model ----
(***************************************************************************)
(* Model of tshides (src/tstools/tshides.cpp): the command-line options    *)
(* (HiDesOptions), the COM context, MainCode and main.  One behaviour is   *)
(* one run of the process on one command line against one system.          *)
(***************************************************************************)
EXTENDS Integers, Sequences, FiniteSets, TLC

\* ---------------------------------------------------------------- bounds
MaxAdapter == 1          \* --adapter takes values 0..MaxAdapter
MaxDevices == 2          \* at most MaxDevices HiDes devices on the system
MaxGain    == 1          \* gains returned by the device lie in -MaxGain..MaxGain

\* ------------------------------------------------------- program constants
UHFFirstChannelFrequency == 474000000

DeviceNames == {"usb-it950x0", "usb-it950x1", "usb-it950x2"}
Frequencies == {586000000, 698000000}
BandwidthNames == {"5", "6", "7", "8"}

VARIABLES
    args,        \* the command line (argc, argv), fixed for the run
    sysDevices,  \* the HiDes devices present on the system, in enumeration order
    pc,          \* position of the process
    opt,         \* HiDesOptions fields
    errs,        \* errors reported through opt (ts::Args error state)
    com,         \* ts::COM state: "none", "initialized", "failed"
    ok,          \* MainCode local
    devices,     \* MainCode local: HiDesDeviceInfoList
    dev,         \* MainCode local: the opened device, "" when closed
    info,        \* MainCode local: HiDesDeviceInfo
    calls,       \* device collaborator calls made so far, in order
    out,         \* lines written to std::cout
    exitStatus   \* "none" while running, then EXIT_SUCCESS or EXIT_FAILURE

vars == <<args, sysDevices, pc, opt, errs, com, ok, devices, dev, info,
          calls, out, exitStatus>>

\* ------------------------------------------------------------ data shapes
\* An option with a value is <<>> when absent and <<v>> when present.
OptionalOf(S) == {<<>>} \cup {<<v>> : v \in S}

CommandLines ==
    [adapter    : OptionalOf(0..MaxAdapter),
     bandwidth  : OptionalOf(BandwidthNames),
     count      : BOOLEAN,
     device     : OptionalOf(DeviceNames \cup {""}),
     frequency  : OptionalOf(Frequencies),
     gain_range : BOOLEAN,
     verbose    : BOOLEAN]

RECURSIVE DistinctSeqs(_, _)
DistinctSeqs(S, n) ==
    IF n = 0 THEN {<<>>}
    ELSE LET shorter == DistinctSeqs(S, n - 1)
         IN  shorter \cup
             {Append(s, x) : s \in {t \in shorter : Len(t) = n - 1}, x \in S}

Range(s) == {s[i] : i \in 1..Len(s)}

Systems == {s \in DistinctSeqs(DeviceNames, MaxDevices) :
               Cardinality(Range(s)) = Len(s)}

Line(kind, text, num) == [kind |-> kind, text |-> text, num |-> num]

Call(op, name, index, frequency, bandwidth, success, min, max) ==
    [op |-> op, name |-> name, index |-> index, frequency |-> frequency,
     bandwidth |-> bandwidth, ok |-> success, min |-> min, max |-> max]

\* ------------------------------------------------------- option accessors
intValue(v, def) == IF v = <<>> THEN def ELSE v[1]

value(v) == IF v = <<>> THEN "" ELSE v[1]

BandwidthEnumeration ==
    ("5" :> "BW_5_MHZ") @@ ("6" :> "BW_5_MHZ") @@
    ("7" :> "BW_7_MHZ") @@ ("8" :> "BW_8_MHZ")

enumValue(v, def) == IF v = <<>> THEN def ELSE BandwidthEnumeration[v[1]]

\* Member initialisers of the constructor.
InitialOptions ==
    [count |-> FALSE, gain_range |-> FALSE, dev_number |-> -1,
     dev_name |-> "", frequency |-> 0, bandwidth |-> "BW_8_MHZ",
     verbose |-> FALSE]

\* Fields after analyze() and the assignments that follow it.
ParsedOptions(a) ==
    [count      |-> a.count,
     gain_range |-> a.gain_range,
     dev_number |-> intValue(a.adapter, -1),
     dev_name   |-> value(a.device),
     bandwidth  |-> enumValue(a.bandwidth, "BW_8_MHZ"),
     frequency  |-> intValue(a.frequency, UHFFirstChannelFrequency),
     verbose    |-> a.verbose]

MutuallyExclusive_NoCheck(o) == FALSE

MutuallyExclusive(o) == o.count /\ o.gain_range

\* ------------------------------------------------------------- MainCode
one_device(o) == o.dev_number >= 0 \/ o.dev_name # ""

UseGetAllDevices_IgnoreGainRange(o) == ~one_device(o)

UseGetAllDevices(o) == ~o.gain_range /\ ~one_device(o)

UseOpenByName(o) == ~UseGetAllDevices(o) /\ o.dev_name # ""

UseOpenByIndex(o) == ~UseGetAllDevices(o) /\ ~UseOpenByName(o)

OpenIndex_NoMax(o) == o.dev_number

OpenIndex(o) == IF o.dev_number > 0 THEN o.dev_number ELSE 0

MainCodeBranch_NoOkCheck(o, okv, devs) ==
    IF o.count THEN "count"
    ELSE IF o.gain_range THEN "gain"
    ELSE IF one_device(o) THEN "one"
    ELSE IF devs = <<>> THEN "none"
    ELSE "all"

MainCodeBranch(o, okv, devs) ==
    IF ~okv THEN "return"
    ELSE IF o.count THEN "count"
    ELSE IF o.gain_range THEN "gain"
    ELSE IF one_device(o) THEN "one"
    ELSE IF devs = <<>> THEN "none"
    ELSE "all"

\* Collaborator: which open calls can succeed on a given system.
CanOpenByName(sys, name) == name \in Range(sys)

CanOpenByIndex(sys, index) == index >= 0 /\ index < Len(sys)

\* ts::BandWidthEnum.name()
BandWidthName(bw) ==
    CASE bw = "BW_5_MHZ" -> "5"
      [] bw = "BW_6_MHZ" -> "6"
      [] bw = "BW_7_MHZ" -> "7"
      [] bw = "BW_8_MHZ" -> "8"

InfoLine(d, verbose) == Line(IF verbose THEN "info-verbose" ELSE "info", d, 0)

GainRangeOutput(inf, o, min, max) ==
    << Line("Device", inf, 0),
       Line("Frequency", "", o.frequency),
       Line("Bandwidth", BandWidthName(o.bandwidth), 0),
       Line("Min. gain", "", min),
       Line("Max. gain", "", max) >>

NoDeviceLine == Line("No HiDes device found", "", 0)

FoundHeader(n) == << Line("Found", "", n), Line("", "", 0) >>

AllDevicesOutput_AlwaysHeader(devs, verbose) ==
    FoundHeader(Len(devs)) \o [i \in 1..Len(devs) |-> InfoLine(devs[i], verbose)]

AllDevicesOutput(devs, verbose) ==
    (IF verbose THEN FoundHeader(Len(devs)) ELSE <<>>)
        \o [i \in 1..Len(devs) |-> InfoLine(devs[i], verbose)]

\* ------------------------------------------------------------------ main
RunMainCode_Always(c) == TRUE

RunMainCode(c) == c = "initialized"

MainExitStatus_AlwaysSuccess(e) == "EXIT_SUCCESS"

MainExitStatus(e) == IF e # <<>> THEN "EXIT_FAILURE" ELSE "EXIT_SUCCESS"

\* A failing collaborator may report an error through the Report it was given.
Reported(e, success, report, msg) ==
    IF ~success /\ report THEN Append(e, msg) ELSE e

\* ------------------------------------------------------------------ Init
Init ==
    /\ args \in CommandLines
    /\ sysDevices \in Systems
    /\ pc = "start"
    /\ opt = InitialOptions
    /\ errs = <<>>
    /\ com = "none"
    /\ ok = FALSE
    /\ devices = <<>>
    /\ dev = ""
    /\ info = ""
    /\ calls = <<>>
    /\ out = <<>>
    /\ exitStatus = "none"

\* --------------------------------------------------------------- actions
\* HiDesOptions opt(argc, argv)
HiDesOptionsCtor ==
    /\ pc = "start"
    /\ LET o == ParsedOptions(args)
           e == IF MutuallyExclusive(o)
                THEN <<"--count and --gain-range are mutually exclusive">>
                ELSE <<>>
       IN  /\ opt' = o
           /\ errs' = e
           /\ IF e # <<>>
              THEN pc' = "exited" /\ exitStatus' = "EXIT_FAILURE"
              ELSE pc' = "com" /\ exitStatus' = exitStatus
    /\ UNCHANGED <<args, sysDevices, com, ok, devices, dev, info, calls, out>>

\* ts::COM com(opt); if (com.isInitialized()) ...
COMInit ==
    /\ pc = "com"
    /\ \E success \in BOOLEAN, report \in BOOLEAN :
        /\ com' = IF success THEN "initialized" ELSE "failed"
        /\ errs' = Reported(errs, success, report, "COM initialization error")
        /\ pc' = IF RunMainCode(com') THEN "resolve" ELSE "exit"
    /\ UNCHANGED <<args, sysDevices, opt, ok, devices, dev, info, calls, out,
                   exitStatus>>

GetAllDevices ==
    /\ pc = "resolve"
    /\ UseGetAllDevices(opt)
    /\ \E success \in BOOLEAN, report \in BOOLEAN :
        /\ ok' = success
        /\ devices' = IF success THEN sysDevices ELSE devices
        /\ errs' = Reported(errs, success, report, "error getting HiDes devices")
        /\ calls' = Append(calls, Call("GetAllDevices", "", 0, 0, "", success, 0, 0))
    /\ pc' = "dispatch"
    /\ UNCHANGED <<args, sysDevices, opt, com, dev, info, out, exitStatus>>

OpenByName ==
    /\ pc = "resolve"
    /\ UseOpenByName(opt)
    /\ \E success \in BOOLEAN, report \in BOOLEAN :
        /\ success => CanOpenByName(sysDevices, opt.dev_name)
        /\ ok' = success
        /\ dev' = IF success THEN opt.dev_name ELSE dev
        /\ errs' = Reported(errs, success, report, "error opening HiDes device")
        /\ calls' = Append(calls, Call("open(name)", opt.dev_name, 0, 0, "", success, 0, 0))
    /\ pc' = "dispatch"
    /\ UNCHANGED <<args, sysDevices, opt, com, devices, info, out, exitStatus>>

OpenByIndex ==
    /\ pc = "resolve"
    /\ UseOpenByIndex(opt)
    /\ LET index == OpenIndex(opt) IN
       \E success \in BOOLEAN, report \in BOOLEAN :
        /\ success => CanOpenByIndex(sysDevices, index)
        /\ ok' = success
        /\ dev' = IF success THEN sysDevices[index + 1] ELSE dev
        /\ errs' = Reported(errs, success, report, "error opening HiDes device")
        /\ calls' = Append(calls, Call("open(index)", "", index, 0, "", success, 0, 0))
    /\ pc' = "dispatch"
    /\ UNCHANGED <<args, sysDevices, opt, com, devices, info, out, exitStatus>>

\* if (!ok) return;
ReturnNotOk ==
    /\ pc = "dispatch"
    /\ MainCodeBranch(opt, ok, devices) = "return"
    /\ pc' = "exit"
    /\ UNCHANGED <<args, sysDevices, opt, errs, com, ok, devices, dev, info,
                   calls, out, exitStatus>>

DisplayCount ==
    /\ pc = "dispatch"
    /\ MainCodeBranch(opt, ok, devices) = "count"
    /\ out' = Append(out, Line("count", "", Len(devices)))
    /\ pc' = "exit"
    /\ UNCHANGED <<args, sysDevices, opt, errs, com, ok, devices, dev, info,
                   calls, exitStatus>>

\* dev.getInfo(info, opt) && ...
GainGetInfo ==
    /\ pc = "dispatch"
    /\ MainCodeBranch(opt, ok, devices) = "gain"
    /\ \E success \in BOOLEAN, report \in BOOLEAN :
        /\ success => dev # ""
        /\ info' = IF success THEN dev ELSE info
        /\ errs' = Reported(errs, success, report, "error getting HiDes device info")
        /\ calls' = Append(calls, Call("getInfo", "", 0, 0, "", success, 0, 0))
        /\ pc' = IF success THEN "gain_range" ELSE "exit"
    /\ UNCHANGED <<args, sysDevices, opt, com, ok, devices, dev, out, exitStatus>>

\* ... && dev.getGainRange(min, max, opt.frequency, opt.bandwidth, opt)
GainGetRange ==
    /\ pc = "gain_range"
    /\ \E success \in BOOLEAN, report \in BOOLEAN,
          min \in -MaxGain..MaxGain, max \in -MaxGain..MaxGain :
        /\ success => dev # ""
        /\ errs' = Reported(errs, success, report, "error getting HiDes gain range")
        /\ calls' = Append(calls, Call("getGainRange", "", 0, opt.frequency,
                                       opt.bandwidth, success, min, max))
        /\ out' = IF success THEN out \o GainRangeOutput(info, opt, min, max)
                  ELSE out
    /\ pc' = "exit"
    /\ UNCHANGED <<args, sysDevices, opt, com, ok, devices, dev, info, exitStatus>>

DisplayOneDevice ==
    /\ pc = "dispatch"
    /\ MainCodeBranch(opt, ok, devices) = "one"
    /\ \E success \in BOOLEAN, report \in BOOLEAN :
        /\ success => dev # ""
        /\ info' = IF success THEN dev ELSE info
        /\ errs' = Reported(errs, success, report, "error getting HiDes device info")
        /\ calls' = Append(calls, Call("getInfo", "", 0, 0, "", success, 0, 0))
        /\ out' = IF success THEN Append(out, InfoLine(info', opt.verbose))
                  ELSE out
    /\ pc' = "exit"
    /\ UNCHANGED <<args, sysDevices, opt, com, ok, devices, dev, exitStatus>>

DisplayNoDevice ==
    /\ pc = "dispatch"
    /\ MainCodeBranch(opt, ok, devices) = "none"
    /\ out' = Append(out, NoDeviceLine)
    /\ pc' = "exit"
    /\ UNCHANGED <<args, sysDevices, opt, errs, com, ok, devices, dev, info,
                   calls, exitStatus>>

DisplayAllDevices ==
    /\ pc = "dispatch"
    /\ MainCodeBranch(opt, ok, devices) = "all"
    /\ out' = out \o AllDevicesOutput(devices, opt.verbose)
    /\ pc' = "exit"
    /\ UNCHANGED <<args, sysDevices, opt, errs, com, ok, devices, dev, info,
                   calls, exitStatus>>

\* opt.exitOnError(); return EXIT_SUCCESS;
MainExit ==
    /\ pc = "exit"
    /\ exitStatus' = MainExitStatus(errs)
    /\ pc' = "exited"
    /\ UNCHANGED <<args, sysDevices, opt, errs, com, ok, devices, dev, info,
                   calls, out>>

Next ==
    \/ HiDesOptionsCtor
    \/ COMInit
    \/ GetAllDevices
    \/ OpenByName
    \/ OpenByIndex
    \/ ReturnNotOk
    \/ DisplayCount
    \/ GainGetInfo
    \/ GainGetRange
    \/ DisplayOneDevice
    \/ DisplayNoDevice
    \/ DisplayAllDevices
    \/ MainExit

Spec == Init /\ [][Next]_vars

\* ------------------------------------------------------------ properties
Done == pc \in {"exit", "exited"}

RejectedByParser == pc = "exited" /\ com = "none"

MainCodeRan == com = "initialized" /\ Done

ResolutionOps == {"GetAllDevices", "open(name)", "open(index)"}

ResolutionCalls == {i \in 1..Len(calls) : calls[i].op \in ResolutionOps}

FailedCalls == {i \in 1..Len(calls) : ~calls[i].ok}

\* What the command line asks for, option by option.
RequestedBandwidth ==
    IF args.bandwidth = <<>> THEN "BW_8_MHZ"
    ELSE CASE args.bandwidth[1] = "5" -> "BW_5_MHZ"
           [] args.bandwidth[1] = "6" -> "BW_6_MHZ"
           [] args.bandwidth[1] = "7" -> "BW_7_MHZ"
           [] args.bandwidth[1] = "8" -> "BW_8_MHZ"

RequestedBandwidthMHz ==
    IF args.bandwidth = <<>> THEN "8" ELSE args.bandwidth[1]

RequestedFrequency ==
    IF args.frequency = <<>> THEN UHFFirstChannelFrequency ELSE args.frequency[1]

RequestedAdapter == IF args.adapter = <<>> THEN -1 ELSE args.adapter[1]

RequestedName == IF args.device = <<>> THEN "" ELSE args.device[1]

\* C1: a command line with both --count and --gain-range ends in a parse
\* error and a failure exit, whatever the other options are, before the COM
\* context is acquired and before any device collaborator call.
C1_BothFlagsRejected ==
    (args.count /\ args.gain_range) =>
        /\ pc \in {"start", "exited"}
        /\ com = "none"
        /\ calls = <<>>
        /\ out = <<>>
        /\ pc = "exited" => (exitStatus = "EXIT_FAILURE" /\ errs # <<>>)

C1_Witness ==
    /\ args.count /\ args.gain_range
    /\ args.adapter # <<>> /\ args.device # <<>> /\ args.verbose
    /\ pc = "exited" /\ exitStatus = "EXIT_FAILURE"

\* C2: for every command line other than --count with --gain-range, parsing
\* succeeds and every configuration field equals the value supplied on the
\* command line or its default: --bandwidth b gives b MHz (default 8 MHz),
\* --adapter n gives device number n (default unset), --frequency f gives f
\* (default first UHF channel).
C2_FieldsReflectFlags ==
    (~(args.count /\ args.gain_range) /\ pc # "start") =>
        /\ ~RejectedByParser
        /\ opt.count = args.count
        /\ opt.gain_range = args.gain_range
        /\ opt.verbose = args.verbose
        /\ opt.dev_number = RequestedAdapter
        /\ opt.dev_name = RequestedName
        /\ opt.frequency = RequestedFrequency
        /\ opt.bandwidth = RequestedBandwidth

\* C3: with --count (and no --gain-range), when the enumerate/open step
\* succeeds the single number printed is the number of devices of the
\* system, also when --adapter or --device is supplied.
C3_CountPrintsDeviceCount ==
    (MainCodeRan /\ opt.count /\ ~opt.gain_range /\ ok) =>
        out = << Line("count", "", Len(sysDevices)) >>

\* C4: a run of MainCode makes exactly one target-resolution call, as its
\* first collaborator call, and it is GetAllDevices if and only if
\* --gain-range is not set and neither an adapter number nor a (non-empty)
\* device name was supplied.
C4_ExactlyOneResolution ==
    /\ Cardinality(ResolutionCalls) <= 1
    /\ (com = "initialized" /\ pc # "resolve") =>
          /\ ResolutionCalls = {1}
          /\ (calls[1].op = "GetAllDevices") <=>
                (~args.gain_range /\ args.adapter = <<>> /\ RequestedName = "")

C4_Witness ==
    /\ pc = "exited" /\ Len(calls) = 1
    /\ calls[1].op = "GetAllDevices"
    /\ ~args.gain_range /\ args.adapter = <<>> /\ args.device = <<>>

\* C5: when MainCode does not enumerate, it opens by name with the supplied
\* name if a non-empty name was supplied (whatever the adapter number and
\* the mode flags), and otherwise opens by index with the supplied adapter
\* number, or 0 when the adapter number was omitted.
C5_OpenTarget ==
    (Len(calls) >= 1 /\ calls[1].op # "GetAllDevices") =>
        IF RequestedName # ""
        THEN calls[1].op = "open(name)" /\ calls[1].name = RequestedName
        ELSE /\ calls[1].op = "open(index)"
             /\ calls[1].index = (IF args.adapter = <<>> THEN 0 ELSE args.adapter[1])
             /\ calls[1].index >= 0

C5_Witness ==
    /\ Len(calls) >= 1 /\ calls[1].op = "open(index)" /\ calls[1].index = 0
    /\ args.adapter = <<>> /\ args.gain_range

\* C6 as stated: the exit status is a failure only when the parser itself
\* flagged an error; no collaborator failure turns it into a failure.
C6_ExitDependsOnlyOnParser ==
    (pc = "exited" /\ com # "failed") =>
        (exitStatus = "EXIT_FAILURE" <=> (args.count /\ args.gain_range))

\* C6 amended: the exit status is a failure exactly when an error was
\* reported through the options object, by the parser or by a collaborator
\* that was given it as its error reporter; a collaborator failure that
\* reports nothing leaves the exit status a success.
C6_ExitReflectsReportedErrors ==
    pc = "exited" =>
        /\ exitStatus \in {"EXIT_SUCCESS", "EXIT_FAILURE"}
        /\ exitStatus = "EXIT_FAILURE" <=> errs # <<>>

C6_Witness ==
    /\ pc = "exited" /\ ~(args.count /\ args.gain_range)
    /\ FailedCalls # {} /\ errs # <<>> /\ exitStatus = "EXIT_FAILURE"

\* C7: with --gain-range, when open, getInfo and getGainRange all succeed
\* the output is the five lines Device, Frequency, Bandwidth, Min. gain,
\* Max. gain, for the frequency and the bandwidth of the command line, with
\* the gains getGainRange returned for them; when getInfo or getGainRange
\* fails nothing is printed.
C7_GainRangeOutput ==
    (MainCodeRan /\ args.gain_range /\ ~args.count) =>
        IF Len(calls) = 3 /\ calls[3].ok
        THEN /\ calls[3].op = "getGainRange"
             /\ calls[3].frequency = RequestedFrequency
             /\ calls[3].bandwidth = RequestedBandwidth
             /\ out = << Line("Device", dev, 0),
                         Line("Frequency", "", RequestedFrequency),
                         Line("Bandwidth", RequestedBandwidthMHz, 0),
                         Line("Min. gain", "", calls[3].min),
                         Line("Max. gain", "", calls[3].max) >>
        ELSE out = <<>>

\* C8: in enumeration mode without --count, zero devices give exactly the
\* line "No HiDes device found"; n > 0 devices give one line per device in
\* enumeration order, headed by "Found n HiDes devices" if and only if
\* verbose is on, and never the "No HiDes device found" line.
DeviceLines == SelectSeq(out, LAMBDA l : l.kind \in {"info", "info-verbose"})

C8_ListOutput ==
    (MainCodeRan /\ calls[1].op = "GetAllDevices" /\ calls[1].ok /\ ~args.count) =>
        IF sysDevices = <<>>
        THEN out = << NoDeviceLine >>
        ELSE /\ DeviceLines = [i \in 1..Len(sysDevices) |->
                                   InfoLine(sysDevices[i], args.verbose)]
             /\ (out[1] = Line("Found", "", Len(sysDevices))) <=> args.verbose
             /\ \A i \in 1..Len(out) :
                   /\ out[i] # NoDeviceLine
                   /\ out[i].kind = "Found" => i = 1
             /\ SelectSeq(out, LAMBDA l : l.kind # "") =
                   (IF args.verbose THEN << Line("Found", "", Len(sysDevices)) >>
                    ELSE <<>>) \o DeviceLines

C8_Witness ==
    /\ pc = "exited" /\ Len(calls) = 1 /\ calls[1].op = "GetAllDevices"
    /\ calls[1].ok /\ ~args.count /\ Len(sysDevices) = 2
    /\ ~args.verbose /\ Len(out) = 2

\* C9 as stated: the COM context is acquired after parsing and before any
\* device operation; when its acquisition fails no collaborator call is
\* made, nothing is printed, and the exit status is the parser's own, which
\* is a success since the parser let the run reach the acquisition.
C9_ComFailureKeepsParserStatus ==
    /\ com = "none" => calls = <<>>
    /\ com # "none" => pc \notin {"start", "com"}
    /\ com = "failed" =>
          /\ calls = <<>>
          /\ out = <<>>
          /\ pc = "exited" => exitStatus = "EXIT_SUCCESS"

\* C9 amended: the COM context is acquired after parsing and before any
\* device operation; when its acquisition fails no collaborator call is
\* made, nothing is printed, and the exit status is a failure exactly when
\* the failed acquisition reported an error through the options object.
C9_ComBeforeDevices ==
    /\ com = "none" => (calls = <<>> /\ out = <<>>)
    /\ com # "none" => pc \notin {"start", "com"}
    /\ com = "failed" =>
          /\ calls = <<>>
          /\ out = <<>>
          /\ pc \in {"exit", "exited"}
          /\ pc = "exited" => (exitStatus = "EXIT_FAILURE" <=> errs # <<>>)

C9_Witness ==
    /\ com = "failed" /\ pc = "exited" /\ calls = <<>> /\ out = <<>>
    /\ exitStatus = "EXIT_FAILURE"

\* C10: getInfo and getGainRange are called only after a successful open of
\* the same run and never in enumeration mode; getGainRange only right
\* after a successful getInfo; after a failed enumerate/open call there is
\* no further collaborator call and no output.
C10_QueriesFollowOpen ==
    /\ \A i \in 1..Len(calls) :
          /\ calls[i].op \in {"getInfo", "getGainRange"} =>
                /\ i > 1
                /\ calls[1].op \in {"open(name)", "open(index)"}
                /\ calls[1].ok
                /\ dev # ""
          /\ calls[i].op = "getGainRange" =>
                /\ i = 3
                /\ calls[2].op = "getInfo" /\ calls[2].ok
    /\ (Len(calls) >= 1 /\ ~calls[1].ok) => (Len(calls) = 1 /\ out = <<>>)

C10_Witness ==
    /\ pc = "exited" /\ Len(calls) = 3
    /\ calls[3].op = "getGainRange" /\ calls[1].ok /\ calls[2].ok

====
